---- MODULE Spec2Model ----
(***************************************************************************)
(* tama_rpg/app.py: a single-user progression tracker.  The actions table  *)
(* is the source of truth; the profile row is a cached projection that is  *)
(* rebuilt by recompute_profile_from_actions after every /log, /update and *)
(* /delete, and advanced by handle_daily_check on every view of "/".       *)
(*                                                                         *)
(* Texts (the TEXT columns `date` and `last_check_date`, and the date form *)
(* field) are tuples of character codes, so that SQLite's and Python's     *)
(* string comparison and strptime's parsing are modelled by what they do.  *)
(* Date objects are day ordinals of the year 2024 (1 = 2024-01-01); the    *)
(* request inputs carry no other year.  The columns `amount` and `note`    *)
(* are never read by the engine and are left out.                          *)
(***************************************************************************)
EXTENDS Integers, Sequences, FiniteSets, TLC

VARIABLES
    today,      \* the system clock's day: date.today(), as a day ordinal
    actions,    \* the rows of table actions: [id, date, type]
    nextId,     \* the next AUTOINCREMENT id of table actions
    profile,    \* the single row of table profile (id = 1)
    lastReq     \* the last request served and how it ended

vars == <<today, actions, nextId, profile, lastReq>>

(***************************************************************************)
(* Bounds of the model.                                                    *)
(***************************************************************************)
\* the last day the clock reaches
MaxDay == 9
\* the rows /log may create in the request-level specification
MaxId == 2
\* the length of the long /log form of the bulk specification
BulkRows == 12
\* the rows /log may create in the bulk specification
MaxBulkId == 40
\* the last day the clock reaches in the calendar specification
LastDay == 13

(***************************************************************************)
(* Program constants.                                                      *)
(***************************************************************************)
STAT_KEYS == <<"strength", "stamina", "intelligence", "wealth", "discipline", "consistency">>
ACTION_TYPES == <<"strength", "stamina", "intelligence", "wealth", "discipline">>
TYPE_KO == {"strength", "stamina", "intelligence", "wealth", "discipline"}
GAIN == [strength |-> 5, stamina |-> 5, intelligence |-> 3, wealth |-> 7, discipline |-> 4]
EXP_PER_ACTION == 10
CONSISTENCY_PER_DAY == 2

need_exp_for_next(level) == 100 + (level * 20)

streak_bonus_exp(streak) ==
    IF streak >= 30 THEN 30
    ELSE IF streak >= 10 THEN 30
    ELSE IF streak >= 5 THEN 15
    ELSE IF streak >= 2 THEN 5
    ELSE 0

\* the days without a type after which its stat decays
DECAY_DAYS == 7

\* the day the database is created: 2024-01-08, the first day of 2024 on
\* which a date can already be DECAY_DAYS old
FirstDay == DECAY_DAYS + 1

(***************************************************************************)
(* Texts and dates.                                                        *)
(***************************************************************************)
Max(a, b) == IF a >= b THEN a ELSE b

\* the character code of a decimal digit; 45 is the code of "-"
Chr(d) == 48 + d

IsDigit(c) == c \in 48..57

\* Python's and SQLite's (BINARY collation) order of two texts: a < b, decided
\* at the first index from i where they differ or one of them ends
RECURSIVE StrLessFrom(_, _, _)
StrLessFrom(a, b, i) ==
    IF i > Len(b) THEN FALSE
    ELSE IF i > Len(a) THEN TRUE
    ELSE IF a[i] # b[i] THEN a[i] < b[i]
    ELSE StrLessFrom(a, b, i + 1)

StrLess(a, b) == StrLessFrom(a, b, 1)

RECURSIVE Num(_)
Num(s) == IF s = <<>> THEN 0 ELSE 10 * Num(SubSeq(s, 1, Len(s) - 1)) + (s[Len(s)] - 48)

MonthDays == <<31, 29, 31, 30, 31, 30, 31, 31, 30, 31, 30, 31>>

RECURSIVE DaysBeforeMonth(_)
DaysBeforeMonth(m) == IF m <= 1 THEN 0 ELSE DaysBeforeMonth(m - 1) + MonthDays[m - 1]

MonthOf(n) == CHOOSE m \in 1..12 : DaysBeforeMonth(m) < n /\ n <= DaysBeforeMonth(m) + MonthDays[m]

\* the text of a number in at least `width` digits (width 1 or 2, n < 100)
Digits(n, width) ==
    IF n < 10 /\ width = 1 THEN <<Chr(n)>> ELSE <<Chr(n \div 10), Chr(n % 10)>>

\* the text of day n of 2024 with its month and day in at least `width` digits
DateText(n, width) ==
    LET m == MonthOf(n)
    IN  <<Chr(2), Chr(0), Chr(2), Chr(4), 45>> \o Digits(m, width) \o <<45>>
            \o Digits(n - DaysBeforeMonth(m), width)

IsoTable == [n \in 1..366 |-> DateText(n, 2)]

\* date.isoformat(): zero-padded YYYY-MM-DD
isoformat(n) == IsoTable[n]

\* the same date written without zero padding (2024-1-8)
unpadded(n) == DateText(n, 1)

\* the fields strptime(s, "%Y-%m-%d") matches: \d\d\d\d, then a month
\* 1[0-2]|0[1-9]|[1-9], then a day 3[01]|[12]\d|0[1-9]|[1-9]
DateFields(s) ==
    LET j == IF s[7] = 45 THEN 7 ELSE 8
    IN  [y |-> SubSeq(s, 1, 4), m |-> SubSeq(s, 6, j - 1), d |-> SubSeq(s, j + 1, Len(s))]

\* whether parse_date(s) returns (TRUE) or raises ValueError (FALSE)
CanParse(s) ==
    LET dashes == {i \in 1..Len(s) : s[i] = 45}
    IN  /\ Cardinality(dashes) = 2
        /\ 5 \in dashes
        /\ dashes \cap {7, 8} # {}
        /\ \A i \in (1..Len(s)) \ dashes : IsDigit(s[i])
        /\ LET f == DateFields(s)
           IN  /\ Num(f.y) = 2024
               /\ Len(f.m) \in {1, 2}
               /\ Len(f.d) \in {1, 2}
               /\ Num(f.m) \in 1..12
               /\ Num(f.d) >= 1
               /\ Num(f.d) <= MonthDays[Num(f.m)]

\* parse_date(s) where it returns: the date, as a day ordinal
parse_date(s) ==
    LET f == DateFields(s)
    IN  DaysBeforeMonth(Num(f.m)) + Num(f.d)

today_str == isoformat(today)

(***************************************************************************)
(* Full recompute.                                                         *)
(***************************************************************************)
\* ORDER BY date ASC, id ASC: date is a TEXT column
RowBefore(r, o) == StrLess(r.date, o.date) \/ (r.date = o.date /\ r.id < o.id)

\* the rows of the table as a sequence, in the order of their ids
RowsById(rows) ==
    LET last == CHOOSE m \in {r.id : r \in rows} : \A r \in rows : r.id <= m
        HasRow(i) == \E r \in rows : r.id = i
        ids == SelectSeq([i \in 1..last |-> i], HasRow)
    IN  [k \in 1..Len(ids) |-> CHOOSE r \in rows : r.id = ids[k]]

\* the rows in the order of the query
SortRows(rows) == IF rows = {} THEN <<>> ELSE SortSeq(RowsById(rows), RowBefore)

\* the query as it would be with ORDER BY id ASC alone
RECURSIVE get_all_actions_by_id(_)
get_all_actions_by_id(rows) ==
    IF rows = {} THEN <<>>
    ELSE LET r == CHOOSE x \in rows : \A o \in rows : o.id <= x.id
         IN  Append(get_all_actions_by_id(rows \ {r}), <<r.date, r.type>>)

\* the (date, type) pairs of the table, in the order the query returns them
get_all_actions(rows) ==
    LET sorted == SortRows(rows)
    IN  [i \in 1..Len(sorted) |-> <<sorted[i].date, sorted[i].type>>]

\* the freshly initialised profile dict
ZeroProfile(today_s) ==
    [level |-> 1, exp |-> 0, strength |-> 0, stamina |-> 0, intelligence |-> 0,
     wealth |-> 0, discipline |-> 0, consistency |-> 0, streak |-> 0,
     last_check_date |-> today_s]

\* by_date.get(d_str, []): the types logged under exactly the text d_str
TypesOn(acts, d_str) ==
    LET OnDay(a) == a[1] = d_str
        sel == SelectSeq(acts, OnDay)
    IN  [i \in 1..Len(sel) |-> sel[i][2]]

\* min(by_date.keys()): the least date text, as texts compare
MinKey(acts) ==
    LET keys == {acts[i][1] : i \in 1..Len(acts)}
    IN  CHOOSE k \in keys : \A o \in keys : ~StrLess(o, k)

\* for t in types_today: if t in GAIN: p[t] += GAIN[t]; p["exp"] += EXP_PER_ACTION
\* over the types from place i on: the additions of the loop, summed by type
ApplyGains(p, types_today, i) ==
    LET rest == {j \in i..Len(types_today) : types_today[j] \in DOMAIN GAIN}
        times(t) == Cardinality({j \in rest : types_today[j] = t})
    IN  IF rest = {} THEN p
        ELSE [k \in DOMAIN p |->
                IF k \in DOMAIN GAIN THEN p[k] + GAIN[k] * times(k)
                ELSE IF k = "exp" THEN p[k] + EXP_PER_ACTION * Cardinality(rest)
                ELSE p[k]]

\* streak and consistency go by "one or more rows on the day"
StreakStep(p, types_today) ==
    IF Len(types_today) > 0
    THEN [p EXCEPT !.consistency = @ + CONSISTENCY_PER_DAY,
                   !.streak = @ + 1,
                   !.exp = @ + streak_bonus_exp(p.streak + 1)]
    ELSE [p EXCEPT !.streak = 0]

\* the leveling as it would be with `if` for `while`: one level a day at most
LevelUpOnce(p) ==
    IF p.exp >= need_exp_for_next(p.level)
    THEN [p EXCEPT !.exp = @ - need_exp_for_next(p.level), !.level = @ + 1]
    ELSE p

\* while p["exp"] >= need_exp_for_next(p["level"]): ...
RECURSIVE LevelUp(_)
LevelUp(p) ==
    IF p.exp >= need_exp_for_next(p.level)
    THEN LevelUp([p EXCEPT !.exp = @ - need_exp_for_next(p.level), !.level = @ + 1])
    ELSE p

\* while d <= end: ...; d += timedelta(days=1).  One iteration takes the
\* day's gains and streak step and then runs the leveling loop, whose test
\* is made here for its first pass
RECURSIVE DayWalk(_, _, _, _)
DayWalk(p, d, end, acts) ==
    IF d > end THEN p
    ELSE LET types_today == TypesOn(acts, isoformat(d))
             q == StreakStep(ApplyGains(p, types_today, 1), types_today)
         IN  IF q.exp >= need_exp_for_next(q.level)
             THEN DayWalk(LevelUp(q), d + 1, end, acts)
             ELSE DayWalk(q, d + 1, end, acts)

\* last_date_for[t] after the loop over actions: the date of the last pair of
\* type t in query order, <<>> standing for None
LastDateFor(acts, t) ==
    LET idx == {i \in 1..Len(acts) : acts[i][2] = t}
    IN  IF idx = {} THEN <<>>
        ELSE acts[CHOOSE i \in idx : \A j \in idx : j <= i][1]

\* the decay loop of the recompute, over ACTION_TYPES from index i
RECURSIVE RecomputeDecay(_, _, _, _)
RecomputeDecay(p, acts, cur_d, i) ==
    IF i > Len(ACTION_TYPES) THEN p
    ELSE LET t == ACTION_TYPES[i]
             last_d_str == LastDateFor(acts, t)
         IN  IF last_d_str = <<>>
             THEN RecomputeDecay(p, acts, cur_d, i + 1)
             ELSE IF cur_d - parse_date(last_d_str) >= DECAY_DAYS
                  THEN RecomputeDecay([p EXCEPT ![t] = Max(0, @ - 2)], acts, cur_d, i + 1)
                  ELSE RecomputeDecay(p, acts, cur_d, i + 1)

\* recompute_profile_from_actions(), reading the table rows and today_str()
recompute_profile_from_actions(rows, today_s) ==
    LET acts == get_all_actions(rows)
        p == ZeroProfile(today_s)
    IN  IF acts = <<>> THEN p
        ELSE LET start == parse_date(MinKey(acts))
                 end == parse_date(today_s)
             IN  RecomputeDecay(DayWalk(p, start, end, acts), acts, end, 1)

(***************************************************************************)
(* Incremental daily check.                                                *)
(***************************************************************************)
\* SELECT 1 FROM actions WHERE date=? LIMIT 1
did_anything_on(rows, d_str) == \E r \in rows : r.date = d_str

\* SELECT date FROM actions WHERE type=? ORDER BY date DESC LIMIT 1
last_action_date_for_type(rows, t) ==
    LET ds == {r.date : r \in {x \in rows : x.type = t}}
    IN  IF ds = {} THEN <<>>
        ELSE CHOOSE k \in ds : \A o \in ds : ~StrLess(k, o)

\* the decay as it would be without the floor max(0, ...)
RECURSIVE apply_weekly_decay_no_floor(_, _, _, _)
apply_weekly_decay_no_floor(p, rows, current_date, i) ==
    IF i > Len(ACTION_TYPES) THEN p
    ELSE LET t == ACTION_TYPES[i]
             last_d_str == last_action_date_for_type(rows, t)
         IN  IF last_d_str = <<>>
             THEN apply_weekly_decay_no_floor(p, rows, current_date, i + 1)
             ELSE IF parse_date(current_date) - parse_date(last_d_str) >= DECAY_DAYS
                  THEN apply_weekly_decay_no_floor([p EXCEPT ![t] = @ - 2], rows,
                                                   current_date, i + 1)
                  ELSE apply_weekly_decay_no_floor(p, rows, current_date, i + 1)

RECURSIVE apply_weekly_decay(_, _, _, _)
apply_weekly_decay(p, rows, current_date, i) ==
    IF i > Len(ACTION_TYPES) THEN p
    ELSE LET t == ACTION_TYPES[i]
             last_d_str == last_action_date_for_type(rows, t)
         IN  IF last_d_str = <<>>
             THEN apply_weekly_decay(p, rows, current_date, i + 1)
             ELSE IF parse_date(current_date) - parse_date(last_d_str) >= DECAY_DAYS
                  THEN apply_weekly_decay([p EXCEPT ![t] = Max(0, @ - 2)], rows,
                                          current_date, i + 1)
                  ELSE apply_weekly_decay(p, rows, current_date, i + 1)

\* a daily check that looks at the current day only and passes over the days
\* on which the page was not viewed
StreakLoopLastDayOnly(p, d, cur, rows) ==
    IF did_anything_on(rows, isoformat(cur))
    THEN [p EXCEPT !.streak = @ + 1]
    ELSE [p EXCEPT !.streak = 0]

\* a day loop that decays on every day it passes, as of that day
RECURSIVE StreakLoopDecaying(_, _, _, _)
StreakLoopDecaying(p, d, cur, rows) ==
    IF d > cur THEN p
    ELSE LET q == apply_weekly_decay(p, rows, isoformat(d), 1)
         IN  IF did_anything_on(rows, isoformat(d))
             THEN StreakLoopDecaying([q EXCEPT !.streak = @ + 1], d + 1, cur, rows)
             ELSE StreakLoopDecaying([q EXCEPT !.streak = 0], d + 1, cur, rows)

\* the day loop of handle_daily_check: only the streak moves
RECURSIVE StreakLoop(_, _, _, _)
StreakLoop(p, d, cur, rows) ==
    IF d > cur THEN p
    ELSE IF did_anything_on(rows, isoformat(d))
         THEN StreakLoop([p EXCEPT !.streak = @ + 1], d + 1, cur, rows)
         ELSE StreakLoop([p EXCEPT !.streak = 0], d + 1, cur, rows)

\* a daily check without the early return of lines 417-418
handle_daily_check_every_view(p, rows, current_date) ==
    LET last == parse_date(p.last_check_date)
        cur == parse_date(current_date)
    IN  [apply_weekly_decay(StreakLoop(p, last + 1, cur, rows), rows, current_date, 1)
            EXCEPT !.last_check_date = current_date]

handle_daily_check(p, rows, current_date) ==
    LET last == parse_date(p.last_check_date)
        cur == parse_date(current_date)
    IN  IF cur <= last THEN p
        ELSE [apply_weekly_decay(StreakLoop(p, last + 1, cur, rows), rows, current_date, 1)
                EXCEPT !.last_check_date = current_date]

(***************************************************************************)
(* Requests.  lastReq.ok tells a request that ran to its recompute-and-save *)
(* (or, for "index", to update_profile) from one turned away by its        *)
(* validation; lastReq.hit tells whether its statement changed a row.      *)
(***************************************************************************)
Served(op, ok, hit) == [op |-> op, ok |-> ok, hit |-> hit]

\* GET /
index ==
    /\ profile' = handle_daily_check(profile, actions, today_str)
    /\ lastReq' = Served("index", TRUE, FALSE)
    /\ UNCHANGED <<today, actions, nextId>>

\* /log as it would be with the gains added to the cached profile instead of
\* the recompute
log_today_incremental(selected) ==
    IF selected = <<>>
    THEN /\ lastReq' = Served("redirect", FALSE, FALSE)
         /\ UNCHANGED <<today, actions, nextId, profile>>
    ELSE /\ actions' = actions \cup
                {[id |-> nextId + i - 1, date |-> today_str, type |-> selected[i]] :
                    i \in 1..Len(selected)}
         /\ nextId' = nextId + Len(selected)
         /\ profile' = [LevelUp(ApplyGains(profile, selected, 1))
                          EXCEPT !.last_check_date = today_str]
         /\ lastReq' = Served("log", TRUE, TRUE)
         /\ UNCHANGED today

\* POST /log with the form's "actions" list
log_today(selected) ==
    IF selected = <<>>
    THEN /\ lastReq' = Served("redirect", FALSE, FALSE)
         /\ UNCHANGED <<today, actions, nextId, profile>>
    ELSE /\ actions' = actions \cup
                {[id |-> nextId + i - 1, date |-> today_str, type |-> selected[i]] :
                    i \in 1..Len(selected)}
         /\ nextId' = nextId + Len(selected)
         /\ profile' = recompute_profile_from_actions(actions', today_str)
         /\ lastReq' = Served("log", TRUE, TRUE)
         /\ UNCHANGED today

\* str.isdigit(), for texts of ASCII characters
isdigit(s) == s # <<>> /\ \A i \in 1..Len(s) : IsDigit(s[i])

\* POST /update
update_action(action_id, new_date, new_type) ==
    IF ~isdigit(action_id) \/ new_type \notin TYPE_KO \/ ~CanParse(new_date)
    THEN /\ lastReq' = Served("redirect", FALSE, FALSE)
         /\ UNCHANGED <<today, actions, nextId, profile>>
    ELSE /\ actions' = {IF r.id = Num(action_id)
                        THEN [r EXCEPT !.date = new_date, !.type = new_type]
                        ELSE r : r \in actions}
         /\ profile' = recompute_profile_from_actions(actions', today_str)
         /\ lastReq' = Served("update", TRUE, \E r \in actions : r.id = Num(action_id))
         /\ UNCHANGED <<today, nextId>>

\* /delete as it would be if the recompute raised on an empty table (no
\* `if not actions` return, min() of no keys): the profile row is not saved
delete_action_raise_on_empty(action_id) ==
    IF ~isdigit(action_id)
    THEN /\ lastReq' = Served("redirect", FALSE, FALSE)
         /\ UNCHANGED <<today, actions, nextId, profile>>
    ELSE /\ actions' = {r \in actions : r.id # Num(action_id)}
         /\ profile' = IF actions' = {} THEN profile
                       ELSE recompute_profile_from_actions(actions', today_str)
         /\ lastReq' = Served("delete", TRUE, \E r \in actions : r.id = Num(action_id))
         /\ UNCHANGED <<today, nextId>>

\* POST /delete
delete_action(action_id) ==
    IF ~isdigit(action_id)
    THEN /\ lastReq' = Served("redirect", FALSE, FALSE)
         /\ UNCHANGED <<today, actions, nextId, profile>>
    ELSE /\ actions' = {r \in actions : r.id # Num(action_id)}
         /\ profile' = recompute_profile_from_actions(actions', today_str)
         /\ lastReq' = Served("delete", TRUE, \E r \in actions : r.id = Num(action_id))
         /\ UNCHANGED <<today, nextId>>

\* /log, /update or /delete stopped between the commit of its statement on
\* table actions and save_profile_dict: the rows are written, the profile row
\* is not
log_today_crash(selected) ==
    /\ selected # <<>>
    /\ actions' = actions \cup
            {[id |-> nextId + i - 1, date |-> today_str, type |-> selected[i]] :
                i \in 1..Len(selected)}
    /\ nextId' = nextId + Len(selected)
    /\ lastReq' = Served("crash", FALSE, TRUE)
    /\ UNCHANGED <<today, profile>>

update_action_crash(action_id, new_date, new_type) ==
    /\ isdigit(action_id) /\ new_type \in TYPE_KO /\ CanParse(new_date)
    /\ actions' = {IF r.id = Num(action_id)
                   THEN [r EXCEPT !.date = new_date, !.type = new_type]
                   ELSE r : r \in actions}
    /\ lastReq' = Served("crash", FALSE, \E r \in actions : r.id = Num(action_id))
    /\ UNCHANGED <<today, nextId, profile>>

delete_action_crash(action_id) ==
    /\ isdigit(action_id)
    /\ actions' = {r \in actions : r.id # Num(action_id)}
    /\ lastReq' = Served("crash", FALSE, \E r \in actions : r.id = Num(action_id))
    /\ UNCHANGED <<today, nextId, profile>>

\* midnight: date.today() moves on
NextDay ==
    /\ today < MaxDay
    /\ today' = today + 1
    /\ lastReq' = Served("tick", TRUE, FALSE)
    /\ UNCHANGED <<actions, nextId, profile>>

(***************************************************************************)
(* The request-level specification: single-row forms, every handler.      *)
(***************************************************************************)
\* the "actions" lists of /log: none ticked, one type, a type outside the set
LogForms == {<<>>, <<"strength">>, <<"intelligence">>, <<"sleep">>}

\* 2024-01-32: the text of no date
NoDate == <<Chr(2), Chr(0), Chr(2), Chr(4), 45, Chr(0), Chr(1), 45, Chr(3), Chr(2)>>

\* the "date" fields of /update that parse: DECAY_DAYS before the first day,
\* one day less, the day after it, and the first day written without padding
DateForms ==
    {isoformat(FirstDay - DECAY_DAYS), isoformat(FirstDay - DECAY_DAYS + 1),
     isoformat(FirstDay + 1), unpadded(FirstDay)}

\* the "action_id" fields that are numbers: the ids /log can have given out
IdForms == {<<Chr(i)>> : i \in 1..MaxId}

\* the /update forms <<action_id, date, type>>: every well-formed one, and one
\* with each field malformed in turn (the id "x", no date, the type "sleep")
UpdateForms ==
    (IdForms \X DateForms \X {"intelligence"})
        \cup {<<(<<120>>), isoformat(FirstDay), "intelligence">>,
              <<(<<Chr(1)>>), NoDate, "intelligence">>,
              <<(<<Chr(1)>>), isoformat(FirstDay), "sleep">>}

\* the /delete forms
DeleteForms == IdForms \cup {<<120>>}

\* init_db() on the first day
Init ==
    /\ today = FirstDay
    /\ actions = {}
    /\ nextId = 1
    /\ profile = ZeroProfile(isoformat(FirstDay))
    /\ lastReq = Served("init", TRUE, FALSE)

IndexReq == index

LogReq == \E s \in LogForms : nextId + Len(s) - 1 <= MaxId /\ log_today(s)

UpdateReq == \E f \in UpdateForms : update_action(f[1], f[2], f[3])

DeleteReq == \E a \in DeleteForms : delete_action(a)

Next == IndexReq \/ LogReq \/ UpdateReq \/ DeleteReq \/ NextDay

Spec == Init /\ [][Next]_vars

(***************************************************************************)
(* The same requests, each of which may also stop between its two commits. *)
(***************************************************************************)
LogCrash == \E s \in LogForms : nextId + Len(s) - 1 <= MaxId /\ log_today_crash(s)

UpdateCrash == \E f \in UpdateForms : update_action_crash(f[1], f[2], f[3])

DeleteCrash == \E a \in DeleteForms : delete_action_crash(a)

NextCrash == Next \/ LogCrash \/ UpdateCrash \/ DeleteCrash

SpecCrash == Init /\ [][NextCrash]_vars

(***************************************************************************)
(* The bulk specification: /log forms long enough to level up, so that the *)
(* recompute's leveling is exercised.                                      *)
(***************************************************************************)
Rep(t, n) == [i \in 1..n |-> t]

\* one form worth exactly need(1) = 120 experience at BulkRows = 12, and one
\* that with it is worth need(1) + need(2)
BulkForms == {Rep("strength", BulkRows), Rep("wealth", BulkRows + 2)}

\* the first row of each of the first two forms
BulkDeleteForms == {Digits(1, 1), Digits(BulkRows + 1, 1)}

BulkLogReq == \E s \in BulkForms : nextId + Len(s) - 1 <= MaxBulkId /\ log_today(s)

BulkDeleteReq == \E a \in BulkDeleteForms : delete_action(a)

NextBulk == IndexReq \/ BulkLogReq \/ BulkDeleteReq \/ NextDay

SpecBulk == Init /\ [][NextBulk]_vars

(***************************************************************************)
(* The class, trait and title shown on the page.                           *)
(***************************************************************************)
\* the labels of base_class and of trait, written in English (the source has
\* them in Korean): one label per stat
CLASS_LABEL ==
    [strength |-> "bodybuilder", stamina |-> "runner", intelligence |-> "scholar",
     wealth |-> "tycoon", discipline |-> "sage", consistency |-> "clear_eyes"]

\* the one title
EXPANDED_TITLE == "clear_eyes_expanded"

None == "None"

\* an insertion that is not stable: an item goes in front of its equals
RECURSIVE InsertStatBeforeTies(_, _, _, _)
InsertStatBeforeTies(sorted, k, p, i) ==
    IF i > Len(sorted) \/ p[sorted[i]] <= p[k]
    THEN SubSeq(sorted, 1, i - 1) \o <<k>> \o SubSeq(sorted, i, Len(sorted))
    ELSE InsertStatBeforeTies(sorted, k, p, i + 1)

\* sorted(..., reverse=True) as what it is left with after the first n items:
\* the sort is stable, so an item goes behind every item whose value is not
\* below its own; sorted is the list of keys, i the place tried
RECURSIVE InsertStat(_, _, _, _)
InsertStat(sorted, k, p, i) ==
    IF i > Len(sorted) \/ p[sorted[i]] < p[k]
    THEN SubSeq(sorted, 1, i - 1) \o <<k>> \o SubSeq(sorted, i, Len(sorted))
    ELSE InsertStat(sorted, k, p, i + 1)

\* the keys of stats.items(), in the order of STAT_KEYS, sorted by value,
\* highest first
RECURSIVE SortedKeys(_, _)
SortedKeys(p, n) ==
    IF n = 0 THEN <<>> ELSE InsertStat(SortedKeys(p, n - 1), STAT_KEYS[n], p, 1)

\* the largest power of two below n (n >= 2), searched from b
RECURSIVE Pow2Below(_, _)
Pow2Below(n, b) == IF 2 * b < n THEN Pow2Below(n, 2 * b) ELSE b

\* int(v1 * 0.7).  The double 0.7 is 7/10 - 4/(10 * 2^53), so the exact
\* product is 7*v1/10 - 4*v1/(10 * 2^53), which the multiplication rounds to
\* the nearest double (ties to even).  When 7*v1/10 is no integer the
\* product is at least 1/10 away from one and int() truncates it to the
\* integer part.  When it is an integer N, with 2^e < N < 2^(e+1), the
\* doubles next to the product are N and N - 2^(e-52): the product is
\* rounded down, and int() gives N - 1, when its distance from N exceeds half
\* that step, 4*v1/(10 * 2^53) > 2^(e-53), which is 2*v1 > 5 * 2^e; at
\* equality the tie goes to N, whose significand is even.
int_times_0_7(v1) ==
    LET q == (7 * v1) \div 10
    IN  IF v1 > 0 /\ v1 % 10 = 0 /\ 2 * v1 > 5 * Pow2Below(q, 1) THEN q - 1 ELSE q

\* the test of the title with the difference tested below 10
expanded_title_below_ten(v1, v3) ==
    IF (v1 - v3) < 10 /\ v1 > 0 THEN EXPANDED_TITLE ELSE None

\* the test of the title
expanded_title(v1, v3) == IF (v1 - v3) <= 10 /\ v1 > 0 THEN EXPANDED_TITLE ELSE None

compute_class_and_traits(p) ==
    LET keys == SortedKeys(p, Len(STAT_KEYS))
        sorted_stats == [i \in 1..Len(keys) |-> <<keys[i], p[keys[i]]>>]
        top1 == sorted_stats[1][1]
        v1 == sorted_stats[1][2]
        top2 == sorted_stats[2][1]
        v2 == sorted_stats[2][2]
        v3 == sorted_stats[3][2]
    IN  [base_class |-> CLASS_LABEL[top1],
         trait |-> IF v1 > 0 /\ v2 >= int_times_0_7(v1) THEN CLASS_LABEL[top2] ELSE None,
         title |-> expanded_title(v1, v3),
         sorted_stats |-> sorted_stats]

\* GET / with what it renders: the daily check, the save, and the class,
\* trait, title and ranking handed to the template
index_page ==
    /\ profile' = handle_daily_check(profile, actions, today_str)
    /\ lastReq' = [op |-> "page", ok |-> TRUE, hit |-> FALSE,
                   page |-> compute_class_and_traits(profile')]
    /\ UNCHANGED <<today, actions, nextId>>

(***************************************************************************)
(* The classification specification: the page rendered from a profile row  *)
(* whose six stats are drawn from values around the tests' boundaries      *)
(* (0; 6, 7 and 10; 7 and 17; 62, 63 and 90).  discipline (gain 4, decay   *)
(* 2) and consistency (2 a day) are never odd.  The row was checked today, *)
(* so the daily check leaves it as it is; the actions table is not read.   *)
(***************************************************************************)
StatValues == {0, 6, 7, 10, 17, 62, 63, 90}

EvenStatValues == {v \in StatValues : v % 2 = 0}

ProfileRows ==
    {[ZeroProfile(isoformat(FirstDay)) EXCEPT
         !.strength = s[1], !.stamina = s[2], !.intelligence = s[3], !.wealth = s[4],
         !.discipline = e[1], !.consistency = e[2]] :
       s \in StatValues \X StatValues \X StatValues \X StatValues,
       e \in EvenStatValues \X EvenStatValues}

InitClass ==
    /\ today = FirstDay
    /\ actions = {}
    /\ nextId = 1
    /\ profile \in ProfileRows
    /\ lastReq = Served("init", TRUE, FALSE)

PageReq == index_page

NextClass == PageReq

SpecClass == InitClass /\ [][NextClass]_vars

(***************************************************************************)
(* The calendar specification: fewer forms and more days, so that the page *)
(* is viewed after days on which it was not, with rows dated in the past,  *)
(* today and ahead of the clock.                                           *)
(***************************************************************************)
\* the clock moves on, up to LastDay
NextDayLong ==
    /\ today < LastDay
    /\ today' = today + 1
    /\ lastReq' = Served("tick", TRUE, FALSE)
    /\ UNCHANGED <<actions, nextId, profile>>

\* the "date" fields of /update: a day old enough to decay on the second
\* day, the day after the first and the day three days after it
LongDateForms ==
    {isoformat(FirstDay - DECAY_DAYS + 1), isoformat(FirstDay + 1), isoformat(FirstDay + 3)}

LongUpdateForms == IdForms \X LongDateForms \X {"strength"}

\* /log writes stamina rows, /update turns a row into a strength row
LongLogReq == nextId <= MaxId /\ log_today(<<"stamina">>)

LongUpdateReq == \E f \in LongUpdateForms : update_action(f[1], f[2], f[3])

LongDeleteReq == \E a \in IdForms : delete_action(a)

NextDays == IndexReq \/ LongLogReq \/ LongUpdateReq \/ LongDeleteReq \/ NextDayLong

SpecDays == Init /\ [][NextDays]_vars

(***************************************************************************)
(* Claims.                                                                 *)
(***************************************************************************)
Mutations == {"log", "update", "delete"}

\* C1: in every reachable state the cached profile equals the full recompute
\* of the current log at today = the profile's last_check_date, in every
\* field (level, exp, the six stats, streak)
C1_CacheIsRecompute ==
    profile = recompute_profile_from_actions(actions, profile.last_check_date)

\* C2: right after a completed /log, /update or /delete the cached profile
\* is the full recompute of the new log at today, with last_check_date =
\* today, whatever the cache held before
C2_MutationOverwrites ==
    lastReq.op \in Mutations =>
        /\ profile = recompute_profile_from_actions(actions, today_str)
        /\ profile.last_check_date = today_str

\* a row was rewritten on a later day than the first, after the daily check
\* or the clock had moved on, and the recompute decayed its stat once
C2_Witness ==
    /\ lastReq = Served("update", TRUE, TRUE)
    /\ today > FirstDay
    /\ \E r \in actions : r.type = "intelligence"
    /\ profile.intelligence = GAIN["intelligence"] - 2

\* C3: the log write and the overwrite of the cached profile are atomic:
\* no step changes the log and leaves the cached profile other than the
\* recompute of the new log
C3_Atomic ==
    [][actions' # actions =>
        profile' = recompute_profile_from_actions(actions', isoformat(today'))]_vars

LevelOk(p) == p.level >= 1 /\ p.exp >= 0 /\ p.exp < need_exp_for_next(p.level)

\* C4: every profile the full recompute returns, and every profile persisted
\* after a daily check, has level >= 1 and 0 <= exp < need(level)
C4_ExpBelowNeed ==
    /\ LevelOk(profile)
    /\ LevelOk(recompute_profile_from_actions(actions, today_str))

\* a daily check on a later day persisted a profile that had rolled over two
\* levels
C4_Witness ==
    /\ lastReq.op = "index"
    /\ today > FirstDay
    /\ profile.last_check_date = today_str
    /\ profile.level >= 3

\* the calendar days on which a row is dated
LoggedDays(rows) == {parse_date(r.date) : r \in rows}

\* the length of the run of consecutive days of `days` that ends at day d
RECURSIVE RunEndingAt(_, _)
RunEndingAt(days, d) == IF d \in days THEN 1 + RunEndingAt(days, d - 1) ELSE 0

\* C5: for a non-empty log the recomputed streak is the length of the run of
\* consecutive calendar days with a row that ends at today (0 when today has
\* no row)
C5_StreakIsRun ==
    actions # {} =>
        recompute_profile_from_actions(actions, today_str).streak
            = RunEndingAt(LoggedDays(actions), today)

EarliestDay(rows) == CHOOSE d \in LoggedDays(rows) : \A e \in LoggedDays(rows) : d <= e

LatestDay(rows) == CHOOSE d \in LoggedDays(rows) : \A e \in LoggedDays(rows) : e <= d

\* the rows of type t dated between the earliest log date and today
RowsWalked(rows, t) ==
    {r \in rows : r.type = t /\ parse_date(r.date) \in EarliestDay(rows)..today}

\* C6: for each of the five types the recomputed stat is G when the type's
\* latest date is fewer than 7 days before today and max(0, G - 2) otherwise,
\* G = gain * the rows of the type dated between the earliest date and today
C6_StatIsGainMinusDecay ==
    \A t \in TYPE_KO :
        LET mine == {r \in actions : r.type = t}
            G == GAIN[t] * Cardinality(RowsWalked(actions, t))
            stat == recompute_profile_from_actions(actions, today_str)[t]
        IN  IF mine = {} THEN stat = 0
            ELSE IF today - LatestDay(mine) < 7 THEN stat = G
            ELSE stat = Max(0, G - 2)

\* the streak bonus as the claim tabulates it
ClaimBonus(streak) ==
    IF streak >= 10 THEN 30 ELSE IF streak >= 5 THEN 15 ELSE IF streak >= 2 THEN 5 ELSE 0

\* the experience earned from day d to today: 10 a row, and the streak bonus
\* of every day that has a row
RECURSIVE ClaimExp(_, _)
ClaimExp(rows, d) ==
    IF d > today THEN 0
    ELSE LET n == Cardinality({r \in rows : parse_date(r.date) = d})
         IN  10 * n
               + (IF n > 0 THEN ClaimBonus(RunEndingAt(LoggedDays(rows), d)) ELSE 0)
               + ClaimExp(rows, d + 1)

\* need(1) + ... + need(level - 1)
RECURSIVE NeedBelow(_)
NeedBelow(level) ==
    IF level <= 1 THEN 0 ELSE NeedBelow(level - 1) + need_exp_for_next(level - 1)

\* the day walk with no leveling in it
RECURSIVE RawWalk(_, _, _, _)
RawWalk(p, d, end, acts) ==
    IF d > end THEN p
    ELSE LET types_today == TypesOn(acts, isoformat(d))
         IN  RawWalk(StreakStep(ApplyGains(p, types_today, 1), types_today), d + 1, end, acts)

\* C7: the recomputed (level, exp) is the pair with level >= 1,
\* 0 <= exp < need(level) and need(1) + ... + need(level-1) + exp = E, E the
\* experience earned over the walk (10 a row, plus each logged day's streak
\* bonus), and leveling once at the end of the walk gives the same pair
C7_LevelExpOfTotal ==
    LET r == recompute_profile_from_actions(actions, today_str)
        E == IF actions = {} THEN 0 ELSE ClaimExp(actions, EarliestDay(actions))
        acts == get_all_actions(actions)
        atEnd == IF actions = {} THEN ZeroProfile(today_str)
                 ELSE LevelUp(RawWalk(ZeroProfile(today_str), parse_date(MinKey(acts)),
                                      today, acts))
    IN  /\ LevelOk(r)
        /\ NeedBelow(r.level) + r.exp = E
        /\ r.level = atEnd.level /\ r.exp = atEnd.exp

\* the rows with their ids renumbered by f
Relabel(rows, f) == {[r EXCEPT !.id = f[r.id]] : r \in rows}

RowIds == {r.id : r \in actions}

\* C8: the recompute depends only on the (date, type) pairs of the log:
\* renumbering the rows (another insertion order) changes nothing, and a
\* recompute-and-save that follows another with the log unchanged persists
\* the same profile
C8_OnlyThePairsCount ==
    /\ \A f \in Permutations(RowIds) :
          recompute_profile_from_actions(Relabel(actions, f), today_str)
              = recompute_profile_from_actions(actions, today_str)
    /\ (lastReq.op \in Mutations /\ ~lastReq.hit) =>
          profile = recompute_profile_from_actions(actions, today_str)

\* two rows of one type, the older with the higher id, the type not decayed
C8_Witness ==
    \E r, o \in actions :
        /\ r.type = o.type /\ r.type \in TYPE_KO
        /\ r.id < o.id
        /\ parse_date(r.date) = today
        /\ today - parse_date(o.date) >= DECAY_DAYS
        /\ profile[r.type] = 2 * GAIN[r.type]

\* C9: in every cached profile the six stats and the streak are >= 0, and
\* the stat of a type with no row in the log is 0
C9_StatsNonNegative ==
    /\ \A i \in 1..Len(STAT_KEYS) : profile[STAT_KEYS[i]] >= 0
    /\ profile.streak >= 0
    /\ \A t \in TYPE_KO : (\A r \in actions : r.type # t) => profile[t] = 0

\* a daily check decayed a logged stat down to the floor, and left a type
\* that has no row at 0
C9_Witness ==
    /\ lastReq.op = "index"
    /\ profile.last_check_date = today_str
    /\ \E r \in actions : r.type = "intelligence"
                           /\ today - parse_date(r.date) >= DECAY_DAYS
    /\ profile.intelligence = 0
    /\ \A r \in actions : r.type # "strength"
    /\ profile.strength = 0

\* C10: the recompute of an empty log is the zero profile with
\* last_check_date = today, and a /delete that leaves the log empty leaves
\* the cached profile at it
C10_EmptyLogIsZero ==
    actions = {} =>
        /\ recompute_profile_from_actions(actions, today_str) = ZeroProfile(today_str)
        /\ lastReq.op = "delete" => profile = ZeroProfile(today_str)

\* a /delete removed the last row of a log that had been written to
C10_Witness ==
    /\ lastReq = Served("delete", TRUE, TRUE)
    /\ actions = {}
    /\ nextId > 1

\* the place of key k in STAT_KEYS
KeyIndex(k) == CHOOSE i \in 1..Len(STAT_KEYS) : STAT_KEYS[i] = k

\* the highest of the six stats
TopValue(p) ==
    CHOOSE v \in {p[STAT_KEYS[i]] : i \in 1..Len(STAT_KEYS)} :
        \A i \in 1..Len(STAT_KEYS) : p[STAT_KEYS[i]] <= v

\* C11: the base class is the label of the stat that comes first in the
\* order of STAT_KEYS among the stats holding the maximum value, the ranking
\* lists the six stats with their values, highest first and equal-valued
\* stats in the order of STAT_KEYS, and with all stats 0 the base class is
\* the strength label
C11_TieBreakIsCanonical ==
    lastReq.op = "page" =>
        LET pg == lastReq.page
            rank == pg.sorted_stats
            first == CHOOSE i \in 1..Len(STAT_KEYS) :
                        /\ profile[STAT_KEYS[i]] = TopValue(profile)
                        /\ \A j \in 1..(i - 1) : profile[STAT_KEYS[j]] # TopValue(profile)
        IN  /\ pg.base_class = CLASS_LABEL[STAT_KEYS[first]]
            /\ Len(rank) = Len(STAT_KEYS)
            /\ {rank[i][1] : i \in 1..Len(rank)} = {STAT_KEYS[i] : i \in 1..Len(STAT_KEYS)}
            /\ \A i \in 1..Len(rank) : rank[i][2] = profile[rank[i][1]]
            /\ \A i, j \in 1..Len(rank) :
                  i < j => \/ rank[i][2] > rank[j][2]
                           \/ /\ rank[i][2] = rank[j][2]
                              /\ KeyIndex(rank[i][1]) < KeyIndex(rank[j][1])
            /\ TopValue(profile) = 0 => pg.base_class = CLASS_LABEL["strength"]

\* a page whose highest value is held by stamina and wealth and not by
\* strength, with two lower stats equal as well
C11_Witness ==
    /\ lastReq.op = "page"
    /\ profile.stamina = TopValue(profile)
    /\ profile.wealth = TopValue(profile)
    /\ profile.strength < TopValue(profile)
    /\ profile.intelligence = profile.consistency
    /\ profile.intelligence < TopValue(profile)
    /\ lastReq.page.base_class = CLASS_LABEL["stamina"]

\* C12: the trait is the label of the 2nd-ranked stat exactly when
\* top1 > 0 and top2 >= floor(7 * top1 / 10), and is absent otherwise (at
\* top1 = 10: present for top2 = 7, absent for top2 = 6)
C12_TraitAtSeventyPercent ==
    lastReq.op = "page" =>
        LET rank == lastReq.page.sorted_stats
            top1 == rank[1][2]
            top2 == rank[2][2]
        IN  lastReq.page.trait =
                IF top1 > 0 /\ top2 >= (7 * top1) \div 10
                THEN CLASS_LABEL[rank[2][1]]
                ELSE None

\* C18: the expanded title is set exactly when top1 > 0 and top1 - top3 <= 10,
\* top1 and top3 the values of the 1st- and 3rd-ranked stats, and never when
\* all stats are 0
C18_TitleWithinTen ==
    lastReq.op = "page" =>
        LET rank == lastReq.page.sorted_stats
            top1 == rank[1][2]
            top3 == rank[3][2]
        IN  /\ lastReq.page.title = EXPANDED_TITLE <=> (top1 > 0 /\ top1 - top3 <= 10)
            /\ lastReq.page.title \in {EXPANDED_TITLE, None}
            /\ TopValue(profile) = 0 => lastReq.page.title = None

\* a page with the title set where the 1st and the 3rd stat are exactly 10
\* apart and the 4th is further off
C18_Witness ==
    /\ lastReq.op = "page"
    /\ lastReq.page.title = EXPANDED_TITLE
    /\ lastReq.page.sorted_stats[1][2] - lastReq.page.sorted_stats[3][2] = 10
    /\ lastReq.page.sorted_stats[3][2] > lastReq.page.sorted_stats[4][2]

C14_DailyCheckFrame ==
    [][(lastReq'.op = "index" /\ today > parse_date(profile.last_check_date)) =>
          /\ profile'.level = profile.level
          /\ profile'.exp = profile.exp
          /\ profile'.consistency = profile.consistency
          /\ profile'.last_check_date = today_str
          /\ \A t \in TYPE_KO : profile[t] - profile'[t] \in 0..2]_vars

\* a view of the page left a stat 2 below what a recompute of the log gives
\* today, so the last write of the row was a daily check whose decay pass
\* took 2 off; every row was already old enough the day before
C14_Witness ==
    /\ lastReq.op = "index"
    /\ profile.last_check_date = today_str
    /\ \E r \in actions : r.type = "strength"
    /\ \A r \in actions : today - parse_date(r.date) >= DECAY_DAYS + 1
    /\ profile.strength > 0
    /\ profile.strength = recompute_profile_from_actions(actions, today_str).strength - 2

\* C15: a daily check with today <= last_check_date leaves the profile
\* unchanged in every field: a view of the page on the day of the last check
\* or recompute repeats no streak increment and no decay
C15_SameDayViewIsNoOp ==
    [][(lastReq'.op = "index" /\ today <= parse_date(profile.last_check_date)) =>
          profile' = profile]_vars

\* a view of the page on the day the profile was last checked, with a row
\* dated today that a repeated day loop would count again and a stat above 0
\* whose type is old enough for a repeated decay
C15_Witness ==
    /\ lastReq.op = "index"
    /\ profile.last_check_date = today_str
    /\ profile.streak >= 1
    /\ profile.strength > 0
    /\ \E r \in actions : parse_date(r.date) = today
    /\ \E r \in actions : r.type = "strength"
    /\ \A r \in actions : r.type = "strength" => today - parse_date(r.date) >= DECAY_DAYS

\* C16: after any sequence of /log, /update and /delete requests every row
\* of the log has a type of the five and a date that parses, and a request
\* that is turned away leaves the log and the cached profile unchanged
C16_LogIsWellFormed ==
    /\ [](\A r \in actions : r.type \in TYPE_KO /\ CanParse(r.date))
    /\ [][lastReq'.op = "redirect" => (actions' = actions /\ profile' = profile)]_vars

\* the calendar days from the earliest log date to today that have a row
DaysWithRows(rows) == {d \in LoggedDays(rows) : d \in EarliestDay(rows)..today}

\* C17: the recomputed consistency is 2 times the number of distinct
\* calendar dates from the earliest log date to today that have at least one
\* row, however many rows a date has, and no daily check lowers the cached
\* consistency
C17_ConsistencyCountsDays ==
    /\ [](recompute_profile_from_actions(actions, today_str).consistency
            = IF actions = {} THEN 0
              ELSE CONSISTENCY_PER_DAY * Cardinality(DaysWithRows(actions)))
    /\ [][lastReq'.op = "index" => profile'.consistency = profile.consistency]_vars

====
